---- MODULE Spec2Model ----
(***************************************************************************)
(* Model of the supabase-react application: App (session observer and     *)
(* route table), Login, Register and Dashboard, together with the part of *)
(* the hosted auth/data service that the components call.                 *)
(***************************************************************************)
EXTENDS Naturals, Sequences, FiniteSets, TLC

VARIABLES
    mounted,      \* App is mounted (its effects have run, cleanup has not)
    subscribed,   \* the onAuthStateChange subscription of App is registered
    user,         \* App's current-user state (useState(null))
    path,         \* the router's current location
    fetch,        \* getSession(): "pending", "read" or "failed", then "done"
    fetchVal,     \* the session the pending getSession() resolves with
    queue,        \* auth-state notifications emitted and not yet delivered
    session,      \* the service's current session for this client
    accounts,     \* emails registered in the auth service
    profiles,     \* rows of the profiles table
    loginReqs,    \* outstanding Login.handleSubmit invocations
    loginLoading, \* Login's loading flag
    toast,        \* message shown by Login's Toast
    regReqs,      \* outstanding Register.handleSubmit invocations
    regLoading,   \* Register's loading flag
    regError,     \* Register's error state
    navState,     \* location state carried by the last navigate() call
    dashPc,       \* Dashboard: "none", "loading" (getUser pending), "ready"
    dashUser,     \* Dashboard's own user state
    logoutReqs,   \* outstanding signOut() calls of Dashboard.handleLogout
    last          \* history: the operation that made the latest step

vars == <<mounted, subscribed, user, path, fetch, fetchVal, queue, session,
          accounts, profiles, loginReqs, loginLoading, toast, regReqs,
          regLoading, regError, navState, dashPc, dashUser, logoutReqs,
          last>>

appVars == <<mounted, subscribed, user, path>>
fetchVars == <<fetch, fetchVal>>
svcVars == <<session, accounts, profiles>>
loginVars == <<loginReqs, loginLoading, toast>>
regVars == <<regReqs, regLoading, regError>>
dashVars == <<dashPc, dashUser>>

----------------------------------------------------------------------------
\* Bounds of the model.

\* Notifications that may be in flight (emitted, not yet delivered).
MaxQueue == 1

\* Handler invocations (Login, Register, Dashboard sign-out) whose external
\* call has not returned yet, over all handlers.
MaxPending == 1

----------------------------------------------------------------------------
\* Values.

Emails == {"a@x", "b@x"}

\* useState(null): the absent user.
NoUser == [id |-> "none", email |-> "none"]

\* The user object the auth service holds for an email.
UserOf(e) == [id |-> IF e = "a@x" THEN "id-a" ELSE "id-b", email |-> e]

Users == {UserOf(e) : e \in Emails}

\* A notification (or getSession result) carrying no session.
NoSession == [present |-> FALSE, user |-> NoUser]

SessionOf(u) == [present |-> TRUE, user |-> u]

\* Error messages the service returns.
Messages == {"request rejected", "network error"}

NoMsg == "none"

\* The error a failed getSession() resolves with.
FetchFailure == "network error"

SuccessMessage == "Registro exitoso"

Routes == {"/", "/login", "/register", "/dashboard"}

----------------------------------------------------------------------------
\* App: the route table and the root-path effect.

Navigate(to) == [kind |-> "Navigate", to |-> to]

View(name) == [kind |-> name, to |-> "none"]

\* Mutant: the guard of ProtectedRoute is missing.
ProtectedRoute_Unguarded(u, children) == children

\* ProtectedRoute: children only when a user is present.
ProtectedRoute(u, children) ==
    IF u = NoUser THEN Navigate("/login") ELSE children

\* Mutant: /login and /register render their form whoever is signed in.
RouteElement_FormsAlways(p, u) ==
    CASE p = "/login" -> View("Login")
      [] p = "/register" -> View("Register")
      [] p = "/dashboard" ->
           IF u = NoUser THEN Navigate("/login") ELSE View("Dashboard")
      [] p = "/" -> Navigate(IF u # NoUser THEN "/dashboard" ELSE "/login")
      [] OTHER -> View("Nothing")

\* Mutant: /login sends everyone to /dashboard.
RouteElement_LoginAlwaysRedirects(p, u) ==
    CASE p = "/login" -> Navigate("/dashboard")
      [] p = "/register" ->
           IF u # NoUser THEN Navigate("/dashboard") ELSE View("Register")
      [] p = "/dashboard" ->
           IF u = NoUser THEN Navigate("/login") ELSE View("Dashboard")
      [] p = "/" -> Navigate(IF u # NoUser THEN "/dashboard" ELSE "/login")
      [] OTHER -> View("Nothing")

\* Mutant: the root route sends everyone to /login.
RouteElement_RootToLogin(p, u) ==
    CASE p = "/login" ->
           IF u # NoUser THEN Navigate("/dashboard") ELSE View("Login")
      [] p = "/register" ->
           IF u # NoUser THEN Navigate("/dashboard") ELSE View("Register")
      [] p = "/dashboard" ->
           IF u = NoUser THEN Navigate("/login") ELSE View("Dashboard")
      [] p = "/" -> Navigate("/login")
      [] OTHER -> View("Nothing")

\* The element <Routes> renders for location p and current user u.
RouteElement(p, u) ==
    CASE p = "/login" ->
           IF u # NoUser THEN Navigate("/dashboard") ELSE View("Login")
      [] p = "/register" ->
           IF u # NoUser THEN Navigate("/dashboard") ELSE View("Register")
      [] p = "/dashboard" -> ProtectedRoute(u, View("Dashboard"))
      [] p = "/" -> Navigate(IF u # NoUser THEN "/dashboard" ELSE "/login")
      [] OTHER -> View("Nothing")

\* The second effect of App: leaves the root path, and only the root path.
RootEffect(p, u) ==
    IF p = "/" THEN (IF u # NoUser THEN "/dashboard" ELSE "/login") ELSE p

\* What is on screen: nothing once App is unmounted.
Screen(m, u, p) == IF m THEN RouteElement(p, u) ELSE View("Nothing")

Element == Screen(mounted, user, path)

\* A rendered <Navigate> whose effect has not run yet.
RedirectPending == Element.kind = "Navigate"

Settled == ~RedirectPending

----------------------------------------------------------------------------
\* App: the session observer.

\* session?.user ?? null, as both the getSession continuation and the
\* onAuthStateChange callback compute it.
SessionUser(s) == IF s.present THEN s.user ELSE NoUser

\* Mutant: the continuation ignores the session it is given.
GetSessionThenUser_Ignored(s) == NoUser

\* The value the getSession().then continuation passes to setUser.
GetSessionThenUser(s) == SessionUser(s)

\* Mutant: the callback handles sign-in only and keeps the user otherwise.
ObserverCallback_SignInOnly(prev, s) == IF s.present THEN s.user ELSE prev

\* The value the onAuthStateChange callback passes to setUser; prev is the
\* current-user state at that moment.
ObserverCallback(prev, s) == SessionUser(s)

\* The subscription after the effect's cleanup, subscription.unsubscribe().
CleanupSubscribed(sub) == FALSE

\* handleLogin and handleLogout of App: the state they would write.
handleLogin(username) == username

handleLogout == NoUser

----------------------------------------------------------------------------
\* What the form handlers do to App's state.  ui is [user, path].

\* Mutant: Login calls the onLogin prop, App's handleLogin, on success.
LoginOnSuccess_CallsOnLogin(ui, signedIn) ==
    [ui EXCEPT !.user = handleLogin(signedIn)]

\* Mutant: Login navigates to the dashboard itself on success.
LoginOnSuccess_Navigates(ui, signedIn) == [ui EXCEPT !.path = "/dashboard"]

\* Login.handleSubmit after a sign-in without error: the try block ends;
\* the onLogin prop is not used and navigate is not called.
LoginOnSuccess(ui, signedIn) == ui

\* Login.handleSubmit's finally block: setLoading(false).
LoginFinally(loading) == FALSE

\* The toast detail Login shows for a rejected sign-in: error.message.
LoginErrorDetail(msg) == msg

\* Dashboard.handleLogout after signOut() returned: the onLogout prop is
\* not used.
LogoutOnReturn(ui) == ui

\* Mutant: the sign-up error is not checked.
RegisterAfterSignUp_IgnoresError(err) == "insert"

\* Register.handleSubmit after the sign-up response: "throw" when the
\* response carries an error, else the profile insert is issued.
RegisterAfterSignUp(err) == IF err # NoMsg THEN "throw" ELSE "insert"

\* Mutant: the insert's error is not checked.
RegisterAfterInsert_IgnoresError(err) == "navigate"

\* Register.handleSubmit after the insert's response: "throw" when the
\* response carries an error, else navigate('/login') is called.
RegisterAfterInsert(err) == IF err # NoMsg THEN "throw" ELSE "navigate"

\* Mutant: the row is keyed by the form's email instead of the user's id.
ProfileRow_KeyedByEmail(usr, email) == [id |-> email, email |-> email]

\* The row Register inserts into profiles for the user sign-up returned.
ProfileRow(usr, email) == [id |-> usr.id, email |-> email]

\* Register.handleSubmit after an insert without error: navigate('/login').
RegisterOnSuccess(ui) == [ui EXCEPT !.path = "/login"]

\* Mutant: Register.handleSubmit has no finally block.
RegisterFinally_Missing(loading) == loading

\* Register.handleSubmit's finally block: setLoading(false).
RegisterFinally(loading) == FALSE

\* Register's catch block: setError(err.message).
RegisterErrorText(msg) == msg

----------------------------------------------------------------------------
\* Component lifetimes: a commit of (mounted, user, path) mounts and
\* unmounts Login, Register and Dashboard; an unmounted component loses its
\* state, and handlers it started keep running against the dead instance.

Dead(reqs) == [i \in DOMAIN reqs |-> [reqs[i] EXCEPT !.live = FALSE]]

Remove(reqs, i) == [j \in 1..(Len(reqs) - 1) |-> IF j < i THEN reqs[j] ELSE reqs[j + 1]]

Alive(name, m, u, p) == Screen(m, u, p).kind = name

\* Login's state after a commit: (reqs, loading, t) if the same Login
\* instance is still on screen, the initial state otherwise.
LoginSet(m, u, p, reqs, loading, t) ==
    IF Alive("Login", m, u, p)
    THEN loginReqs' = reqs /\ loginLoading' = loading /\ toast' = t
    ELSE loginReqs' = Dead(reqs) /\ loginLoading' = FALSE /\ toast' = NoMsg

RegisterSet(m, u, p, reqs, loading, err) ==
    IF Alive("Register", m, u, p)
    THEN regReqs' = reqs /\ regLoading' = loading /\ regError' = err
    ELSE regReqs' = Dead(reqs) /\ regLoading' = FALSE /\ regError' = NoMsg

LoginAfter(m, u, p) == LoginSet(m, u, p, loginReqs, loginLoading, toast)

RegisterAfter(m, u, p) == RegisterSet(m, u, p, regReqs, regLoading, regError)

\* Dashboard's effect starts getUser() when the component mounts.
DashboardAfter(m, u, p) ==
    IF Alive("Dashboard", m, u, p)
    THEN IF dashPc = "none"
         THEN dashPc' = "loading" /\ dashUser' = NoUser
         ELSE UNCHANGED dashVars
    ELSE dashPc' = "none" /\ dashUser' = NoUser

Commit(m, u, p) ==
    /\ mounted' = m
    /\ user' = u
    /\ path' = p
    /\ LoginAfter(m, u, p)
    /\ RegisterAfter(m, u, p)
    /\ DashboardAfter(m, u, p)

Did(op) == last' = [op |-> op, msg |-> NoMsg]

DidMsg(op, m) == last' = [op |-> op, msg |-> m]

UI == [user |-> user, path |-> path]

\* Handler invocations awaiting an external call.
Outstanding == Len(loginReqs) + Len(regReqs) + logoutReqs

----------------------------------------------------------------------------
\* Initial state: App has rendered once with user = null and its mount
\* effect has called getSession() and registered the observer.  The service
\* knows one registered user with a profile row, who may hold a session.

Init ==
    /\ mounted = TRUE
    /\ subscribed = TRUE
    /\ user = NoUser
    /\ path \in Routes
    /\ fetch = "pending"
    /\ fetchVal = NoSession
    /\ queue = << >>
    /\ accounts = {"a@x"}
    /\ profiles = {ProfileRow(UserOf("a@x"), "a@x")}
    /\ session \in {NoUser, UserOf("a@x")}
    /\ loginReqs = << >>
    /\ loginLoading = FALSE
    /\ toast = NoMsg
    /\ regReqs = << >>
    /\ regLoading = FALSE
    /\ regError = NoMsg
    /\ navState = NoMsg
    /\ dashPc = "none"
    /\ dashUser = NoUser
    /\ logoutReqs = 0
    /\ last = [op |-> "Init", msg |-> NoMsg]

----------------------------------------------------------------------------
\* The session observer.

\* getSession() obtains the client's current session.
GetSessionRead ==
    /\ Settled
    /\ fetch = "pending"
    /\ fetch' = "read"
    /\ fetchVal' = IF session = NoUser THEN NoSession ELSE SessionOf(session)
    /\ Did("GetSessionRead")
    /\ UNCHANGED <<appVars, queue, svcVars, loginVars, regVars, navState,
                   dashVars, logoutReqs>>

\* getSession() fails: it resolves with an error and no session.
GetSessionFail ==
    /\ Settled
    /\ fetch = "pending"
    /\ fetch' = "failed"
    /\ fetchVal' = NoSession
    /\ DidMsg("GetSessionFail", FetchFailure)
    /\ UNCHANGED <<appVars, queue, svcVars, loginVars, regVars, navState,
                   dashVars, logoutReqs>>

\* The continuation of getSession(): setUser(session?.user ?? null).  It is
\* not cancelled by the cleanup; on an unmounted App the update is dropped.
GetSessionThen ==
    /\ Settled
    /\ fetch \in {"read", "failed"}
    /\ fetch' = "done"
    /\ IF mounted
       THEN Commit(mounted, GetSessionThenUser(fetchVal), path)
       ELSE UNCHANGED <<mounted, user, path, loginVars, regVars, dashVars>>
    /\ DidMsg("GetSessionThen", IF fetch = "failed" THEN FetchFailure ELSE NoMsg)
    /\ UNCHANGED <<subscribed, fetchVal, queue, svcVars, navState, logoutReqs>>

\* The observer's callback runs for the oldest undelivered notification.
OnAuthStateChange ==
    /\ Settled
    /\ queue # << >>
    /\ subscribed
    /\ queue' = Tail(queue)
    /\ Commit(mounted, ObserverCallback(user, Head(queue)), path)
    /\ Did("OnAuthStateChange")
    /\ UNCHANGED <<subscribed, fetchVars, svcVars, navState, logoutReqs>>

\* A notification finds no subscriber.
DropNotification ==
    /\ Settled
    /\ queue # << >>
    /\ ~subscribed
    /\ queue' = Tail(queue)
    /\ Did("DropNotification")
    /\ UNCHANGED <<appVars, fetchVars, svcVars, loginVars, regVars, navState,
                   dashVars, logoutReqs>>

\* App is torn down: the mount effect's cleanup runs.
Unmount ==
    /\ Settled
    /\ mounted
    /\ subscribed' = CleanupSubscribed(subscribed)
    /\ Commit(FALSE, user, path)
    /\ Did("Unmount")
    /\ UNCHANGED <<fetchVars, queue, svcVars, navState, logoutReqs>>

----------------------------------------------------------------------------
\* Routing.

\* The effect of a rendered <Navigate>, followed by App's root-path effect.
Redirect ==
    /\ RedirectPending
    /\ Commit(mounted, user, RootEffect(Element.to, user))
    /\ navState' = NoMsg
    /\ Did("Redirect")
    /\ UNCHANGED <<subscribed, fetchVars, queue, svcVars, logoutReqs>>

\* The location changes to route p (history traversal).
Visit(p) ==
    /\ Settled
    /\ mounted
    /\ p # path
    /\ Commit(mounted, user, p)
    /\ navState' = NoMsg
    /\ Did("Visit")
    /\ UNCHANGED <<subscribed, fetchVars, queue, svcVars, logoutReqs>>

----------------------------------------------------------------------------
\* Events of the auth service other than replies to this client's calls.

TokenRefreshed ==
    /\ Settled
    /\ session # NoUser
    /\ Len(queue) < MaxQueue
    /\ queue' = Append(queue, SessionOf(session))
    /\ Did("TokenRefreshed")
    /\ UNCHANGED <<appVars, fetchVars, svcVars, loginVars, regVars, navState,
                   dashVars, logoutReqs>>

SessionExpired ==
    /\ Settled
    /\ session # NoUser
    /\ Len(queue) < MaxQueue
    /\ session' = NoUser
    /\ queue' = Append(queue, NoSession)
    /\ Did("SessionExpired")
    /\ UNCHANGED <<appVars, fetchVars, accounts, profiles, loginVars, regVars,
                   navState, dashVars, logoutReqs>>

----------------------------------------------------------------------------
\* Login.

\* The app-level part of a handler's continuation that leaves App's state
\* as ui and does not touch Login's state.
ApplyKeepingLogin(ui) ==
    /\ mounted' = mounted
    /\ user' = ui.user
    /\ path' = ui.path
    /\ navState' = IF ui.path = path THEN navState ELSE NoMsg
    /\ RegisterAfter(mounted, ui.user, ui.path)
    /\ DashboardAfter(mounted, ui.user, ui.path)

\* handleSubmit up to the await: setLoading(true), signInWithPassword().
\* The submit button carries loading={loading}.
LoginSubmit(e) ==
    /\ Settled
    /\ Element.kind = "Login"
    /\ ~loginLoading
    /\ Outstanding < MaxPending
    /\ loginReqs' = Append(loginReqs, [email |-> e, live |-> TRUE])
    /\ loginLoading' = TRUE
    /\ toast' = toast
    /\ Did("LoginSubmit")
    /\ UNCHANGED <<appVars, fetchVars, queue, svcVars, regVars, navState,
                   dashVars, logoutReqs>>

\* The sign-in call returns without error: the service holds a session and
\* emits a notification; the handler only runs its finally block.
SignInOk(i) ==
    LET r == loginReqs[i]
        u == UserOf(r.email)
        ui == LoginOnSuccess(UI, u)
    IN  /\ Settled
        /\ r.email \in accounts
        /\ Len(queue) < MaxQueue
        /\ session' = u
        /\ queue' = Append(queue, SessionOf(u))
        /\ ApplyKeepingLogin(ui)
        /\ LoginSet(mounted, ui.user, ui.path, Remove(loginReqs, i),
                    IF r.live THEN LoginFinally(loginLoading) ELSE loginLoading,
                    toast)
        /\ Did("SignInOk")
        /\ UNCHANGED <<subscribed, fetchVars, accounts, profiles, logoutReqs>>

\* The sign-in call returns an error: the catch block shows it through the
\* Toast ref, which is null once the Login that submitted is unmounted (the
\* call then throws and nothing is shown); finally setLoading(false).
SignInRejected(i, m) ==
    LET r == loginReqs[i]
    IN  /\ Settled
        /\ loginReqs' = Remove(loginReqs, i)
        /\ loginLoading' = IF r.live THEN LoginFinally(loginLoading)
                                     ELSE loginLoading
        /\ toast' = IF r.live THEN LoginErrorDetail(m) ELSE toast
        /\ DidMsg(IF r.live THEN "SignInRejected" ELSE "SignInRejectedNoToast", m)
        /\ UNCHANGED <<appVars, fetchVars, queue, svcVars, regVars, navState,
                       dashVars, logoutReqs>>

\* The "Regístrate aquí" button: navigate('/register').
LoginGoRegister ==
    /\ Settled
    /\ Element.kind = "Login"
    /\ Commit(mounted, user, "/register")
    /\ navState' = NoMsg
    /\ Did("LoginGoRegister")
    /\ UNCHANGED <<subscribed, fetchVars, queue, svcVars, logoutReqs>>

\* The toast disappears after its life time.
ToastExpire ==
    /\ Settled
    /\ toast # NoMsg
    /\ toast' = NoMsg
    /\ Did("ToastExpire")
    /\ UNCHANGED <<appVars, fetchVars, queue, svcVars, loginReqs, loginLoading,
                   regVars, navState, dashVars, logoutReqs>>

----------------------------------------------------------------------------
\* Register.

\* handleSubmit up to the first await: setLoading(true), setError(null),
\* signUp().  The submit button carries disabled={loading}.
RegisterSubmit(e) ==
    /\ Settled
    /\ Element.kind = "Register"
    /\ ~regLoading
    /\ Outstanding < MaxPending
    /\ regReqs' = Append(regReqs, [email |-> e, live |-> TRUE, step |-> "signUp",
                                   row |-> ProfileRow(NoUser, e)])
    /\ regLoading' = TRUE
    /\ regError' = NoMsg
    /\ Did("RegisterSubmit")
    /\ UNCHANGED <<appVars, fetchVars, queue, svcVars, loginVars, navState,
                   dashVars, logoutReqs>>

\* handleSubmit from the sign-up response (usr, err) to its next await or
\* to its end: throw into catch/finally, or issue the profile insert.
RegisterContinue(i, usr, err) ==
    LET r == regReqs[i]
    IN  IF RegisterAfterSignUp(err) = "insert"
        THEN /\ regReqs' = [regReqs EXCEPT ![i].step = "insert",
                                           ![i].row = ProfileRow(usr, r.email)]
             /\ UNCHANGED <<regLoading, regError>>
        ELSE /\ regReqs' = Remove(regReqs, i)
             /\ regLoading' = IF r.live THEN RegisterFinally(regLoading)
                                        ELSE regLoading
             /\ regError' = IF r.live THEN RegisterErrorText(err) ELSE regError

\* The sign-up call returns a user and no error: the auth user it has
\* created or, for an address that is registered already, the user of that
\* address.
SignUpOk(i) ==
    LET r == regReqs[i]
    IN  /\ Settled
        /\ r.step = "signUp"
        /\ accounts' = accounts \cup {r.email}
        /\ RegisterContinue(i, UserOf(r.email), NoMsg)
        /\ Did("SignUpOk")
        /\ UNCHANGED <<appVars, fetchVars, queue, session, profiles, loginVars,
                       navState, dashVars, logoutReqs>>

\* The sign-up call returns an error and no user.
SignUpFailed(i, m) ==
    LET r == regReqs[i]
    IN  /\ Settled
        /\ r.step = "signUp"
        /\ RegisterContinue(i, NoUser, m)
        /\ DidMsg(IF r.live THEN "SignUpFailed" ELSE "SignUpFailedUnmounted", m)
        /\ UNCHANGED <<appVars, fetchVars, queue, svcVars, loginVars, navState,
                       dashVars, logoutReqs>>

\* Mutant: the table has no primary key.
Insertable_NoPrimaryKey(row) == row.id \in {UserOf(e).id : e \in accounts}

\* The table accepts a row whose id is an auth user's (foreign key) and not
\* yet a row's (primary key).
Insertable(row) ==
    /\ row.id \in {UserOf(e).id : e \in accounts}
    /\ row.id \notin {x.id : x \in profiles}

\* handleSubmit from the insert's response (err) to its end: throw into
\* catch (setError) or navigate('/login', {state}); then finally
\* setLoading(false).  Register's state is written only when the instance
\* that submitted is still mounted.
RegisterFinish(i, err) ==
    LET r == regReqs[i]
        ok == RegisterAfterInsert(err) = "navigate"
        ui == IF ok THEN RegisterOnSuccess(UI) ELSE UI
        shown == IF ok THEN regError ELSE RegisterErrorText(err)
    IN  /\ mounted' = mounted
        /\ user' = ui.user
        /\ path' = ui.path
        /\ navState' = IF ok THEN SuccessMessage ELSE navState
        /\ RegisterSet(mounted, ui.user, ui.path, Remove(regReqs, i),
                       IF r.live THEN RegisterFinally(regLoading) ELSE regLoading,
                       IF r.live THEN shown ELSE regError)
        /\ LoginAfter(mounted, ui.user, ui.path)
        /\ DashboardAfter(mounted, ui.user, ui.path)

\* The insert returns without error and the row is in the table.
InsertOk(i) ==
    LET r == regReqs[i]
    IN  /\ Settled
        /\ r.step = "insert"
        /\ Insertable(r.row)
        /\ profiles' = profiles \cup {r.row}
        /\ RegisterFinish(i, NoMsg)
        /\ Did("InsertOk")
        /\ UNCHANGED <<subscribed, fetchVars, queue, session, accounts, logoutReqs>>

\* The insert returns an error and no row is added.
InsertFailed(i, m) ==
    LET r == regReqs[i]
    IN  /\ Settled
        /\ r.step = "insert"
        /\ RegisterFinish(i, m)
        /\ DidMsg(IF r.live THEN "InsertFailed" ELSE "InsertFailedUnmounted", m)
        /\ UNCHANGED <<subscribed, fetchVars, queue, svcVars, logoutReqs>>

\* The "Inicia sesión" button: navigate('/login').
RegisterGoLogin ==
    /\ Settled
    /\ Element.kind = "Register"
    /\ Commit(mounted, user, "/login")
    /\ navState' = NoMsg
    /\ Did("RegisterGoLogin")
    /\ UNCHANGED <<subscribed, fetchVars, queue, svcVars, logoutReqs>>

----------------------------------------------------------------------------
\* Dashboard.

\* getUser() of the mounted Dashboard resolves: setUser(user).
DashboardGetUser(u) ==
    /\ Settled
    /\ dashPc = "loading"
    /\ dashPc' = "ready"
    /\ dashUser' = u
    /\ Did("DashboardGetUser")
    /\ UNCHANGED <<appVars, fetchVars, queue, svcVars, loginVars, regVars,
                   navState, logoutReqs>>

\* handleLogout up to the await: signOut().
LogoutClick ==
    /\ Settled
    /\ Element.kind = "Dashboard"
    /\ Outstanding < MaxPending
    /\ logoutReqs' = logoutReqs + 1
    /\ Did("LogoutClick")
    /\ UNCHANGED <<appVars, fetchVars, queue, svcVars, loginVars, regVars,
                   navState, dashVars>>

\* signOut() succeeds: the session is removed and a notification emitted;
\* handleLogout ends.
SignOutOk ==
    LET ui == LogoutOnReturn(UI)
    IN  /\ Settled
        /\ logoutReqs > 0
        /\ Len(queue) < MaxQueue
        /\ logoutReqs' = logoutReqs - 1
        /\ session' = NoUser
        /\ queue' = Append(queue, NoSession)
        /\ Commit(mounted, ui.user, ui.path)
        /\ navState' = IF ui.path = path THEN navState ELSE NoMsg
        /\ Did("SignOutOk")
        /\ UNCHANGED <<subscribed, fetchVars, accounts, profiles>>

\* signOut() fails: a returned error is ignored, a thrown one logged.
SignOutFailed ==
    LET ui == LogoutOnReturn(UI)
    IN  /\ Settled
        /\ logoutReqs > 0
        /\ logoutReqs' = logoutReqs - 1
        /\ Commit(mounted, ui.user, ui.path)
        /\ navState' = IF ui.path = path THEN navState ELSE NoMsg
        /\ Did("SignOutFailed")
        /\ UNCHANGED <<subscribed, fetchVars, queue, svcVars>>

----------------------------------------------------------------------------
\* A rendered <Navigate> runs its effect before anything else is rendered
\* or handled: every other step waits for a pending redirect (Settled).

Next ==
    \/ Redirect
    \/ GetSessionRead
    \/ GetSessionFail
    \/ GetSessionThen
    \/ OnAuthStateChange
    \/ DropNotification
    \/ Unmount
    \/ \E p \in Routes : Visit(p)
    \/ TokenRefreshed
    \/ SessionExpired
    \/ \E e \in Emails : LoginSubmit(e)
    \/ \E i \in DOMAIN loginReqs : SignInOk(i)
    \/ \E i \in DOMAIN loginReqs, m \in Messages : SignInRejected(i, m)
    \/ LoginGoRegister
    \/ ToastExpire
    \/ \E e \in Emails : RegisterSubmit(e)
    \/ \E i \in DOMAIN regReqs : SignUpOk(i)
    \/ \E i \in DOMAIN regReqs, m \in Messages : SignUpFailed(i, m)
    \/ \E i \in DOMAIN regReqs : InsertOk(i)
    \/ \E i \in DOMAIN regReqs, m \in Messages : InsertFailed(i, m)
    \/ RegisterGoLogin
    \/ \E u \in {session, NoUser} : DashboardGetUser(u)
    \/ LogoutClick
    \/ SignOutOk
    \/ SignOutFailed

Spec == Init /\ [][Next]_vars

\* The event loop runs every queued task: a pending notification is
\* delivered (strongly fair, since a pending redirect only postpones it), a
\* rendered <Navigate> runs its effect, and a sign-out call returns.
Fairness ==
    /\ SF_vars(OnAuthStateChange)
    /\ WF_vars(DropNotification)
    /\ WF_vars(Redirect)
    /\ WF_vars(SignOutOk \/ SignOutFailed)

LiveSpec == Spec /\ Fairness

----------------------------------------------------------------------------
\* Properties.

\* A step made by operation op.
Step(ops) == last'.op \in ops

\* C1: right after the observer processes a notification, current-user is
\* exactly the user of the session the notification carries, or null when
\* it carries no session; what current-user was before does not matter.
C1_LastNotificationWins ==
    [][Step({"OnAuthStateChange"}) =>
         user' = (IF Head(queue).present THEN Head(queue).user ELSE NoUser)]_vars

\* The observer has replaced a user obtained from the initial fetch by the
\* absence a later notification carried.
C1_Witness ==
    /\ last.op = "OnAuthStateChange"
    /\ user = NoUser
    /\ fetch = "done"
    /\ fetchVal.present

\* C2: once the initial session fetch has completed, every change of
\* current-user is made by the observer's callback processing a
\* notification; no Login, Register or Dashboard handler changes it.
C2_ObserverSoleWriter ==
    [][(fetch = "done" /\ user' # user) => Step({"OnAuthStateChange"})]_vars

\* A Login submission has succeeded after initialization and current-user
\* is still absent: the handler did not write it.
C2_Witness ==
    /\ fetch = "done"
    /\ last.op = "SignInOk"
    /\ user = NoUser

\* C3: Dashboard is never on screen while current-user is absent, and a
\* location of /dashboard with current-user absent is left at once by a
\* redirect to /login.
C3_DashboardProtected ==
    /\ [](dashPc # "none" => user # NoUser)
    /\ []((mounted /\ user = NoUser /\ path = "/dashboard") =>
             Element = Navigate("/login"))
    /\ [][(mounted /\ user = NoUser /\ path = "/dashboard") =>
             (path' = "/login" /\ user' = NoUser)]_vars

\* The location has just become /dashboard while current-user is absent.
C3_Witness ==
    /\ last.op = "Visit"
    /\ mounted
    /\ user = NoUser
    /\ path = "/dashboard"

\* C4: Login and Register are never on screen while current-user is
\* present (no submission of theirs is live then), and a location of /login
\* or /register with current-user present is left at once by a redirect to
\* /dashboard.
C4_AuthRoutesRedirect ==
    /\ []((mounted /\ user # NoUser) =>
             /\ Element.kind \notin {"Login", "Register"}
             /\ \A i \in DOMAIN loginReqs : ~loginReqs[i].live
             /\ \A i \in DOMAIN regReqs : ~regReqs[i].live)
    /\ [][(mounted /\ user # NoUser /\ path \in {"/login", "/register"}) =>
             (path' = "/dashboard" /\ user' = user)]_vars

\* The location has just become /register while a user is present.
C4_Witness ==
    /\ last.op = "Visit"
    /\ mounted
    /\ user # NoUser
    /\ path = "/register"

C6_NoUpdateAfterDispose ==
    /\ subscribed = mounted
    /\ ~mounted => last.op \notin {"OnAuthStateChange", "GetSessionThen"}

\* C7 as stated: with App mounted, a rejected sign-in shows the returned
\* message, navigates nowhere, leaves current-user and the session alone,
\* and ends the submission without issuing another call.
C7_RejectedLoginShowsError ==
    [][(mounted /\ Step({"SignInRejected", "SignInRejectedNoToast"})) =>
         /\ toast' = last'.msg
         /\ path' = path
         /\ user' = user
         /\ session' = session
         /\ queue' = queue
         /\ Len(loginReqs') = Len(loginReqs) - 1]_vars

\* C8: a successful Login submission neither navigates nor writes
\* current-user, and yet the Dashboard is eventually shown (for as long as
\* App is mounted): the notification sets current-user and the route
\* redirects.
C8_LoginSuccessReachesDashboard ==
    /\ [][Step({"SignInOk"}) => (user' = user /\ path' = path)]_vars
    /\ (last.op = "SignInOk") ~> (Element.kind = "Dashboard" \/ ~mounted)

\* A Login submission has just succeeded while /login is still shown.
C8_Witness ==
    /\ last.op = "SignInOk"
    /\ mounted
    /\ user = NoUser
    /\ path = "/login"
    /\ queue # << >>

\* C9: the profile insert of a submission is issued only once sign-up has
\* created the auth user, with a row keyed by that user's id; when the
\* insert succeeds exactly that one row is added, and the same step
\* navigates to /login carrying the success message.
C9_RegistrationOrder ==
    /\ [](\A i \in DOMAIN regReqs :
             regReqs[i].step = "insert" =>
                 /\ regReqs[i].email \in accounts
                 /\ regReqs[i].row.id = UserOf(regReqs[i].email).id
                 /\ regReqs[i].row.email = regReqs[i].email)
    /\ [][Step({"InsertOk"}) =>
             /\ profiles \subseteq profiles'
             /\ Cardinality(profiles' \ profiles) = 1
             /\ \A x \in profiles' \ profiles :
                    /\ x.email \in accounts
                    /\ x.id = UserOf(x.email).id
                    /\ \E i \in DOMAIN regReqs : regReqs[i].row = x
             /\ Len(regReqs') = Len(regReqs) - 1
             /\ path' = "/login"
             /\ navState' = SuccessMessage]_vars

\* A registration of b@x has just completed: its row is in the table and
\* /login is the location, with the success message.
C9_Witness ==
    /\ last.op = "InsertOk"
    /\ ProfileRow(UserOf("b@x"), "b@x") \in profiles
    /\ path = "/login"
    /\ navState = SuccessMessage

\* What a failed sign-up must leave alone: the submission ends without an
\* insert being issued for it (other submissions are untouched), no row or
\* user is created and nothing navigates.
NothingElseHappens ==
    /\ \E i \in DOMAIN regReqs :
           regReqs[i].step = "signUp" /\ regReqs' = Remove(regReqs, i)
    /\ profiles' = profiles
    /\ accounts' = accounts
    /\ path' = path
    /\ navState' = navState
    /\ user' = user

\* C10 as stated: with App mounted, a failed sign-up displays the returned
\* message and does nothing else.
C10_SignUpFailureShowsError ==
    [][(mounted /\ Step({"SignUpFailed", "SignUpFailedUnmounted"})) =>
         (regError' = last'.msg /\ NothingElseHappens)]_vars

\* C10 amended: a failed sign-up does nothing but report: the returned
\* message is displayed when the Register form that submitted is still
\* mounted, and the form's state is untouched when it is not.
C10_SignUpFailureOnlyReports ==
    [][(Step({"SignUpFailed"}) =>
           (regError' = last'.msg /\ ~regLoading' /\ NothingElseHappens))
       /\ (Step({"SignUpFailedUnmounted"}) =>
           (regError' = regError /\ regLoading' = regLoading
            /\ NothingElseHappens))]_vars

\* The Register form shows the message of the sign-up that has just failed.
C10_Witness ==
    /\ last.op = "SignUpFailed"
    /\ Element.kind = "Register"
    /\ regError = last.msg
    /\ regError \in Messages

\* Requests whose profile insert has been issued.
InsertsIssued(reqs) == Cardinality({i \in DOMAIN reqs : reqs[i].step = "insert"})

\* What a failed insert must leave alone: the submission ends (other
\* submissions are untouched), its auth user stays registered, no row is
\* added or removed and nothing navigates.
InsertFailureLeaves ==
    /\ \E i \in DOMAIN regReqs :
           /\ regReqs[i].step = "insert"
           /\ regReqs' = Remove(regReqs, i)
           /\ regReqs[i].email \in accounts'
    /\ profiles' = profiles
    /\ accounts' = accounts
    /\ path' = path
    /\ navState' = navState
    /\ user' = user

\* C11 as stated: with App mounted, a failed profile insert displays the
\* insert's error, navigates nowhere and leaves the auth user and the
\* table as they are.
C11_InsertFailureShowsError ==
    [][(mounted /\ Step({"InsertFailed", "InsertFailedUnmounted"})) =>
         (regError' = last'.msg /\ InsertFailureLeaves)]_vars

\* C11 amended: a failed profile insert navigates nowhere and leaves the
\* auth user registered and the table as it is; its error is displayed
\* when the Register form that submitted is still mounted, and the form's
\* state is untouched when it is not.  No step ever removes an auth user,
\* and an insert is only ever issued by the sign-up response of a
\* submission (no retry).
C11_InsertFailureNotReconciled ==
    /\ [][(Step({"InsertFailed"}) =>
             (regError' = last'.msg /\ ~regLoading' /\ InsertFailureLeaves))
         /\ (Step({"InsertFailedUnmounted"}) =>
             (regError' = regError /\ regLoading' = regLoading
              /\ InsertFailureLeaves))]_vars
    /\ [][accounts \subseteq accounts']_vars
    /\ [][InsertsIssued(regReqs') > InsertsIssued(regReqs) =>
             Step({"SignUpOk"})]_vars

\* The Register form shows the error of the insert that has just failed
\* for the new auth user b@x, who has no profile row.
C11_Witness ==
    /\ last.op = "InsertFailed"
    /\ Element.kind = "Register"
    /\ regError = last.msg
    /\ regError \in Messages
    /\ "b@x" \in accounts
    /\ \A x \in profiles : x.email # "b@x"

\* Address e has a profile row.
HasProfile(e) == \E x \in profiles : x.email = e

\* This step ends submission i of Register.
Ended(i) == Dead(regReqs') = Dead(Remove(regReqs, i))

\* C12 as stated: with App mounted, a Registration for an address that has
\* a profile row ends at the insert step with the error displayed in the
\* form, the flag cleared and the table unchanged.
C12_DuplicateFailsAtInsert ==
    [][\A i \in DOMAIN regReqs :
         (mounted /\ HasProfile(regReqs[i].email) /\ Ended(i)) =>
             /\ Step({"InsertFailed", "InsertFailedUnmounted"})
             /\ regError' = last'.msg
             /\ ~regLoading'
             /\ profiles' = profiles]_vars

\* C12 amended: a Registration for an address that has a profile row never
\* succeeds: it ends with an error at the sign-up step when the service
\* rejects the sign-up, and otherwise at the insert step, which the table
\* refuses.  The table is unchanged; when the Register form that submitted
\* is still mounted the error is displayed in it and the form accepts a
\* new submission.  The table never holds two rows for one user.
C12_DuplicateRegistrationFails ==
    /\ [][\A i \in DOMAIN regReqs :
             (HasProfile(regReqs[i].email) /\ Ended(i)) =>
                 /\ Step({"SignUpFailed", "SignUpFailedUnmounted",
                          "InsertFailed", "InsertFailedUnmounted"})
                 /\ profiles' = profiles
                 /\ Step({"SignUpFailed", "InsertFailed"}) =>
                        /\ regError' = last'.msg
                        /\ ~regLoading'
                        /\ Element'.kind = "Register"]_vars
    /\ [](\A i \in DOMAIN regReqs :
             (regReqs[i].step = "insert" /\ HasProfile(regReqs[i].email)) =>
                 ~Insertable(regReqs[i].row))
    /\ [](\A x, y \in profiles :
             (x.id = y.id \/ x.email = y.email) => x = y)

\* The insert of a second Registration for a@x, the only registered
\* address, has just failed: the form shows the error and is idle.
C12_Witness ==
    /\ last.op = "InsertFailed"
    /\ accounts = {"a@x"}
    /\ profiles = {ProfileRow(UserOf("a@x"), "a@x")}
    /\ Element.kind = "Register"
    /\ regError = last.msg
    /\ ~regLoading

\* What an unauthenticated App shows: a form, or the redirect to /login.
ShowsUnauthenticated(el) ==
    el.kind \in {"Login", "Register"} \/ el = Navigate("/login")

\* C13: getSession() obtains the client's current session; with App
\* mounted its continuation sets current-user to that session's user, or
\* to null when there is none; after a failed fetch current-user is null
\* and App still renders: a form, or the redirect to /login.
C13_InitialFetchSetsUser ==
    /\ [][Step({"GetSessionRead"}) =>
             fetchVal' = (IF session = NoUser THEN NoSession
                                              ELSE SessionOf(session))]_vars
    /\ [][(mounted /\ Step({"GetSessionThen"})) =>
             /\ user' = (IF fetchVal.present THEN fetchVal.user ELSE NoUser)
             /\ fetch' = "done"
             /\ mounted']_vars
    /\ [][(mounted /\ Step({"GetSessionThen"}) /\ fetch = "failed") =>
             /\ user' = NoUser
             /\ ShowsUnauthenticated(Element')]_vars

\* The initial fetch has failed although the service holds a session:
\* current-user is null and the Login form is shown.
C13_Witness ==
    /\ last = [op |-> "GetSessionThen", msg |-> FetchFailure]
    /\ session # NoUser
    /\ user = NoUser
    /\ Element.kind = "Login"

\* The profile rows of user u.
RowsOf(u) == {x \in profiles : x.id = u.id}

\* C14 as stated: a Dashboard that has finished loading displays the one
\* profile row of the current user; with no row, or several, it would be
\* in an error state instead.  Dashboard has no such state: once its
\* getUser() has returned it displays.
C14_DashboardExpectsOneRow ==
    (dashPc = "ready") => (Cardinality(RowsOf(user)) = 1)

\* Where the root route sends a visitor whose current-user is u.
RootTarget(u) == IF u # NoUser THEN "/dashboard" ELSE "/login"

\* C15: while the location is / a mounted App renders nothing but the
\* redirect chosen by current-user (/dashboard when present, /login when
\* absent), and the only step taken from there is that redirect, with
\* current-user unchanged.
C15_RootRedirects ==
    /\ []((mounted /\ path = "/") => Element = Navigate(RootTarget(user)))
    /\ [][(mounted /\ path = "/") =>
             (Step({"Redirect"}) /\ path' = RootTarget(user) /\ user' = user)]_vars

\* A signed-in visitor has just arrived at the root route.
C15_Witness ==
    /\ last.op = "Visit"
    /\ mounted
    /\ path = "/"
    /\ user # NoUser

\* Outstanding submissions of the form instance that is on screen.
LiveCount(reqs) == Cardinality({i \in DOMAIN reqs : reqs[i].live})

StableRoutes(u) ==
    IF u # NoUser THEN {"/dashboard"} ELSE {"/login", "/register"}

\* C17: from any route and with any current-user, one redirect (so at most
\* two) leaves current-user alone and ends at a route that redirects no
\* further: redirects never loop.  A route that renders a view is
\* /dashboard when the user is present and /login or /register when absent.
C17_RedirectsSettle ==
    /\ [][Step({"Redirect"}) =>
             (Settled' /\ user' = user /\ path' \in StableRoutes(user))]_vars
    /\ []((mounted /\ Settled) => path \in StableRoutes(user))
    /\ []((mounted /\ ~Settled) => path \notin StableRoutes(user))

\* A visitor without a session got to /login through a redirect; the
\* route table shows the Login form there.
C17_Witness ==
    /\ last.op = "Redirect"
    /\ mounted
    /\ user = NoUser
    /\ path = "/login"
    /\ Settled

\* C18 as stated: with App mounted, the step after which the initial fetch
\* has completed (without failing) and no notification is undelivered
\* leaves current-user equal to the user of the service's current session:
\* whether that step is the fetch's continuation, running after the
\* notifications, or the observer's callback, running after it.
C18_FetchNeverOverwritesNewer ==
    [][/\ (mounted /\ Step({"GetSessionThen"}) /\ fetch = "read"
            /\ queue = << >>) => user' = session
       /\ (mounted /\ Step({"OnAuthStateChange"}) /\ fetch = "done"
            /\ queue' = << >>) => user' = session]_vars

====
